---- MODULE Spec2Model ----
(***************************************************************************)
(* A model of the tui-md markdown renderer (src/src/renderer.rs and        *)
(* src/src/syntax.rs).  The renderer walks a stream of pulldown-cmark      *)
(* events and builds a vector of styled lines.  Every handler of the       *)
(* Renderer is an operator from the renderer's fields (the record `self`)  *)
(* to its fields after the call; one action of the model is one event      *)
(* handed to process_event.                                                *)
(*                                                                         *)
(* Strings are sequences of characters, a character being a number: NL is  *)
(* '\n', SP is ' ', every other number is a visible character.  Strings    *)
(* the code builds from literals (the quote marker, the bullets, the       *)
(* borders, ...) are kept symbolic: a content record names its kind and    *)
(* the values formatted into it.                                           *)
(***************************************************************************)
EXTENDS Integers, Sequences, FiniteSets, TLC

VARIABLES
    mode,       \* the class of documents explored (fixed by Init)
    input,      \* render's argument, a string
    pc,         \* "init" before render, "walk" in the event loop, "done" after
    events,     \* the events handed to process_event so far
    open,       \* the tags started and not yet ended (the parser's nesting)
    r,          \* the Renderer's fields
    output,     \* the vector render returned (<<>> until it returns)
    calls       \* two more calls of render on the same input, each with the
                \* Renderer it constructed: its position pc, its fields r,
                \* the number k of events it has processed and its output

vars == <<mode, input, pc, events, open, r, output, calls>>

----------------------------------------------------------------------------
(* Characters and strings *)

NL == 0
SP == 1
BACKTICK == 2

IsWhitespace(c) == c \in {NL, SP}

\* A visible character of at least WideFrom stands for a non-ASCII character
\* (for instance a curly quote made by smart punctuation): three bytes.
WideFrom == 50

CharBytes(c) == IF c >= WideFrom THEN 3 ELSE 1

RECURSIVE SumBytes(_)
SumBytes(s) == IF s = <<>> THEN 0 ELSE CharBytes(Head(s)) + SumBytes(Tail(s))

AllWhitespace(s) == \A i \in 1..Len(s) : IsWhitespace(s[i])

RECURSIVE TrimStart(_)
TrimStart(s) ==
    IF s # <<>> /\ IsWhitespace(Head(s)) THEN TrimStart(Tail(s)) ELSE s

RECURSIVE TrimEnd(_)
TrimEnd(s) ==
    IF s # <<>> /\ IsWhitespace(s[Len(s)])
    THEN TrimEnd(SubSeq(s, 1, Len(s) - 1))
    ELSE s

\* str::trim
Trim(s) == TrimEnd(TrimStart(s))

\* A trim that removes nothing.
TrimEndNewlines_None(s) == s

\* str::trim_end_matches('\n')
RECURSIVE TrimEndNewlines(_)
TrimEndNewlines(s) ==
    IF s # <<>> /\ s[Len(s)] = NL
    THEN TrimEndNewlines(SubSeq(s, 1, Len(s) - 1))
    ELSE s

\* The index of the first NL of s, 0 when there is none.
RECURSIVE FirstNL(_, _)
FirstNL(s, i) ==
    IF i > Len(s) THEN 0 ELSE IF s[i] = NL THEN i ELSE FirstNL(s, i + 1)

\* str::lines: the lines of s, each without its line ending; a final line
\* ending adds no empty last line, and the empty string has no lines.
RECURSIVE StrLines(_)
StrLines(s) ==
    IF s = <<>> THEN <<>>
    ELSE LET k == FirstNL(s, 1) IN
         IF k = 0 THEN <<s>>
         ELSE <<SubSeq(s, 1, k - 1)>> \o StrLines(SubSeq(s, k + 1, Len(s)))

Repeat(x, n) == [i \in 1..n |-> x]

----------------------------------------------------------------------------
(* Styles, spans and lines (ratatui) *)

DefaultStyle == [fg |-> "none", bg |-> "none", mods |-> {}]

Fg(style, color) == [style EXCEPT !.fg = color]
Bg(style, color) == [style EXCEPT !.bg = color]
AddModifier(style, m) == [style EXCEPT !.mods = @ \cup {m}]

CODE_BG == "rgb30"

\* A span's content: its kind k, the numbers v and n formatted into it and
\* the string s formatted into it.
Content(k, v, n, s) == [k |-> k, v |-> v, n |-> n, s |-> s]

Lit(k) == Content(k, 0, 0, <<>>)
Str(k, s) == Content(k, 0, 0, s)

Span(content, style) == [content |-> content, style |-> style]

\* " ".repeat(n)
Spaces(n) == Str("text", Repeat(SP, n))

\* The characters of a bullet of BULLETS, of the quote marker and of the
\* checkboxes: one non-ASCII glyph and one space.
GlyphBytes == 4

RECURSIVE Digits(_)
Digits(n) == IF n < 10 THEN 1 ELSE 1 + Digits(n \div 10)

\* str::len of a content: its length in bytes.
ByteLen(c) ==
    CASE c.k = "text"     -> SumBytes(c.s)
      [] c.k = "code"     -> SumBytes(c.s) + 2
      [] c.k = "header"   -> c.v + SumBytes(c.s) + c.n
      [] c.k = "bar"      -> 3
      [] c.k = "url"      -> SumBytes(c.s) + 3
      [] c.k = "label"    -> SumBytes(c.s) + 4
      [] c.k = "codeline" -> SumBytes(c.s) + 4
      [] c.k = "quote"    -> GlyphBytes
      [] c.k \in {"Bullet", "WhiteBullet", "SmallSquare"} -> 2 * c.n + GlyphBytes
      [] c.k = "checkbox" -> 2 * c.n + GlyphBytes + 2
      [] c.k = "number"   -> 2 * c.n + Digits(c.v) + 2
      [] c.k = "imgopen"  -> 6
      [] c.k = "imgclose" -> 1
      [] c.k = "rule"     -> 3 * 40
      [] c.k = "border"   -> 3 * Len(c.s)
      [] OTHER            -> 0

\* content.trim().is_empty(): of the strings the code builds, only those
\* made of spaces and of the characters of a text can be whitespace.
ContentIsBlank(c) ==
    CASE c.k \in {"text", "codeline", "header"} -> AllWhitespace(c.s)
      [] OTHER -> FALSE

\* The characters of a span of a table cell (a text, or an inline code
\* between its backticks).
Chars(c) ==
    CASE c.k = "code" -> <<BACKTICK>> \o c.s \o <<BACKTICK>>
      [] OTHER -> c.s

\* Line::from(""): a line without spans.
BlankLine == <<>>

line_is_blank(line) ==
    IF line = <<>> THEN TRUE
    ELSE \A i \in 1..Len(line) : ContentIsBlank(line[i].content)

Last(s) == s[Len(s)]
Front(s) == SubSeq(s, 1, Len(s) - 1)

\* self.lines.last().is_some_and(|l| line_is_blank(l))
LastIsBlank(lines) == lines # <<>> /\ line_is_blank(Last(lines))

----------------------------------------------------------------------------
(* The code-highlight adapter (syntax.rs) *)

\* The language tags SYNTAX_SET resolves; every other tag, the empty one
\* included, resolves to no syntax.
LangRust == <<2>>
LangUnknown == <<3>>
KnownLangs == {LangRust}

\* One line of highlight_with_syntect: the indent span, then the regions of
\* the line, each a span of the line's text (one region holds the whole of
\* a line; an empty line has no region).
SyntectLine(line_text) ==
    <<Span(Spaces(4), Bg(DefaultStyle, CODE_BG))>>
    \o (IF line_text = <<>> THEN <<>>
        ELSE <<Span(Str("text", line_text), Bg(Fg(DefaultStyle, "rgb"), CODE_BG))>>)

highlight_with_syntect(code) ==
    LET ls == StrLines(code) IN [i \in 1..Len(ls) |-> SyntectLine(ls[i])]

plain_code_lines(code) ==
    LET ls == StrLines(code) IN
    [i \in 1..Len(ls) |->
        <<Span(Str("codeline", ls[i]), Bg(Fg(DefaultStyle, "Gray"), CODE_BG))>>]

highlight_code(code, language) ==
    IF language \in KnownLangs
    THEN highlight_with_syntect(code)
    ELSE plain_code_lines(code)

----------------------------------------------------------------------------
(* The Renderer *)

\* enum ListKind
Unordered(depth) == [kind |-> "Unordered", n |-> depth]
Ordered(num) == [kind |-> "Ordered", n |-> num]

\* The glyphs of the bullets, by name; the content of a bullet has its
\* glyph's name for kind and its indent level for n.
BULLETS == <<"Bullet", "WhiteBullet", "SmallSquare">>

\* Renderer::new
new ==
    [ lines              |-> <<>>,
      current_spans      |-> <<>>,
      style_stack        |-> <<DefaultStyle>>,
      in_code_block      |-> FALSE,
      code_block_lang    |-> <<>>,
      code_block_buf     |-> <<>>,
      list_stack         |-> <<>>,
      blockquote_depth   |-> 0,
      in_table           |-> FALSE,
      in_table_head      |-> FALSE,
      table_row_cells    |-> <<>>,
      current_cell_spans |-> <<>>,
      table_col_count    |-> 0,
      table_header_rows  |-> <<>>,
      table_body_rows    |-> <<>>,
      link_url           |-> <<>> ]     \* Option<String>: <<>> is None,
                                        \* <<url>> is Some(url)

\* -- helpers --

\* *self.style_stack.last().unwrap_or(&Style::default())
current_style(self) ==
    IF self.style_stack = <<>> THEN DefaultStyle ELSE Last(self.style_stack)

\* A push of the modifier alone, without the style in effect.
push_modifier_FromDefault(self, modifier) ==
    [self EXCEPT !.style_stack = Append(@, AddModifier(DefaultStyle, modifier))]

push_modifier(self, modifier) ==
    [self EXCEPT !.style_stack = Append(@, AddModifier(current_style(self), modifier))]

\* Vec::pop: nothing happens on an empty vector
Pop(s) == IF s = <<>> THEN <<>> ELSE Front(s)

flush_spans(self) ==
    IF self.current_spans # <<>>
    THEN [self EXCEPT !.lines = Append(@, self.current_spans),
                      !.current_spans = <<>>]
    ELSE self

push_blank_line(self) ==
    IF ~LastIsBlank(self.lines)
    THEN [self EXCEPT !.lines = Append(@, BlankLine)]
    ELSE self

QuoteSpan == Span(Lit("quote"), Fg(DefaultStyle, "DarkGray"))

\* add_blockquote_prefix(&self, spans): spans with the markers appended
add_blockquote_prefix(self, spans) ==
    spans \o Repeat(QuoteSpan, self.blockquote_depth)

\* -- tag start handlers --

start_paragraph(self) ==
    IF self.blockquote_depth > 0
    THEN [self EXCEPT !.current_spans = add_blockquote_prefix(self, <<>>)]
    ELSE self

\* A heading style that has the level's colour and is not bold.
HeadingStyle_NoBold(level) ==
    CASE level = 1 -> Fg(DefaultStyle, "Cyan")
      [] level = 2 -> Fg(DefaultStyle, "Green")
      [] OTHER     -> Fg(DefaultStyle, "Yellow")

HeadingStyle(level) ==
    CASE level = 1 -> AddModifier(Fg(DefaultStyle, "Cyan"), "BOLD")
      [] level = 2 -> AddModifier(Fg(DefaultStyle, "Green"), "BOLD")
      [] OTHER     -> AddModifier(Fg(DefaultStyle, "Yellow"), "BOLD")

start_heading(self, level) ==
    [self EXCEPT !.style_stack = Append(@, HeadingStyle(level))]

\* kind: <<"Fenced", lang>> or <<"Indented">>
start_code_block(self, kind) ==
    [self EXCEPT !.in_code_block = TRUE,
                 !.code_block_buf = <<>>,
                 !.code_block_lang =
                     IF kind[1] = "Fenced" THEN kind[2] ELSE <<>>]

start_blockquote(self) ==
    [self EXCEPT !.blockquote_depth = @ + 1]

\* first_item: <<>> is None, <<start>> is Some(start)
start_list(self, first_item) ==
    LET depth == Len(self.list_stack) IN
    IF first_item # <<>>
    THEN [self EXCEPT !.list_stack = Append(@, Ordered(first_item[1]))]
    ELSE [self EXCEPT !.list_stack = Append(@, Unordered(depth))]

\* usize::saturating_sub
SaturatingSub(a, b) == IF a >= b THEN a - b ELSE 0

\* A marker whose glyph stops at the last of BULLETS instead of cycling.
ItemMarker_NoCycle(self) ==
    LET indent_level == SaturatingSub(Len(self.list_stack), 1) IN
    IF self.list_stack = <<>>
    THEN Span(Spaces(2), DefaultStyle)
    ELSE LET top == Last(self.list_stack) IN
         IF top.kind = "Unordered"
         THEN Span(Content(BULLETS[(IF top.n < Len(BULLETS) THEN top.n ELSE Len(BULLETS) - 1) + 1],
                           0, indent_level, <<>>),
                   Fg(DefaultStyle, "Cyan"))
         ELSE Span(Content("number", top.n, indent_level, <<>>),
                   Fg(DefaultStyle, "Cyan"))

\* marker_span of start_item
ItemMarker(self) ==
    LET indent_level == SaturatingSub(Len(self.list_stack), 1) IN
    IF self.list_stack = <<>>
    THEN Span(Spaces(2), DefaultStyle)
    ELSE LET top == Last(self.list_stack) IN
         IF top.kind = "Unordered"
         THEN Span(Content(BULLETS[(top.n % Len(BULLETS)) + 1], 0, indent_level, <<>>),
                   Fg(DefaultStyle, "Cyan"))
         ELSE Span(Content("number", top.n, indent_level, <<>>),
                   Fg(DefaultStyle, "Cyan"))

\* A counter step that counts the item in every ordered list of the stack.
IncrementCounter_All(list_stack) ==
    [k \in 1..Len(list_stack) |->
        IF list_stack[k].kind = "Ordered"
        THEN [list_stack[k] EXCEPT !.n = @ + 1]
        ELSE list_stack[k]]

\* if let Some(ListKind::Ordered(num)) = self.list_stack.last_mut() { *num += 1 }
IncrementCounter(list_stack) ==
    IF list_stack # <<>> /\ Last(list_stack).kind = "Ordered"
    THEN [list_stack EXCEPT ![Len(list_stack)].n = @ + 1]
    ELSE list_stack

start_item(self) ==
    LET flushed == flush_spans(self) IN
    [flushed EXCEPT
        !.list_stack = IncrementCounter(@),
        !.current_spans =
            Append(add_blockquote_prefix(flushed, <<>>), ItemMarker(flushed))]

start_link(self, url) ==
    [self EXCEPT
        !.link_url = <<url>>,
        !.style_stack =
            Append(@, AddModifier(Fg(current_style(self), "Blue"), "UNDERLINED"))]

start_image(self, url) ==
    [self EXCEPT !.current_spans =
        Append(@, Span(Lit("imgopen"), Fg(DefaultStyle, "DarkGray")))]

start_table(self) ==
    [self EXCEPT !.in_table = TRUE,
                 !.table_col_count = 0,
                 !.table_header_rows = <<>>,
                 !.table_body_rows = <<>>]

\* -- table layout --

RECURSIVE SumLens(_)
\* cell_spans.iter().map(|s| s.content.len()).sum()
SumLens(cell_spans) ==
    IF cell_spans = <<>> THEN 0
    ELSE ByteLen(Head(cell_spans).content) + SumLens(Tail(cell_spans))

Max(a, b) == IF a >= b THEN a ELSE b

RECURSIVE MaxOver(_, _)
\* The maximum of f over the sequence rows, at least floor.
MaxOver(vals, floor) ==
    IF vals = <<>> THEN floor ELSE MaxOver(Tail(vals), Max(floor, Head(vals)))

\* all_rows.iter().map(|r| r.len()).max().unwrap_or(0)
ColCount(all_rows) == MaxOver([i \in 1..Len(all_rows) |-> Len(all_rows[i])], 0)

\* A width without the two characters of padding.
ColWidth_NoPad(all_rows, i) ==
    MaxOver([j \in 1..Len(all_rows) |->
                IF i <= Len(all_rows[j]) THEN SumLens(all_rows[j][i]) ELSE 0],
            3)

\* The width of column i (1-based): vec![3; col_count], then for each row
\* holding a cell i, col_widths[i].max(content_len + 2).
ColWidth(all_rows, i) ==
    MaxOver([j \in 1..Len(all_rows) |->
                IF i <= Len(all_rows[j]) THEN SumLens(all_rows[j][i]) + 2 ELSE 0],
            3)

ColWidths(all_rows) ==
    [i \in 1..ColCount(all_rows) |-> ColWidth(all_rows, i)]

\* One column of build_table_border: w dashes and, unless the column is the
\* last, the junction mid.
RECURSIVE BorderCols(_, _, _)
BorderCols(col_widths, i, mid) ==
    IF i > Len(col_widths) THEN <<>>
    ELSE Repeat("-", col_widths[i])
         \o (IF i - 1 < Len(col_widths) - 1 THEN <<mid>> ELSE <<>>)
         \o BorderCols(col_widths, i + 1, mid)

\* The string of a border, one name per character: "-" for the dash, the
\* other names for the corner and junction glyphs.
build_table_border(col_widths, left, mid, right) ==
    <<left>> \o BorderCols(col_widths, 1, mid) \o <<right>>

RECURSIVE CellText(_)
\* cell_spans.iter().map(|s| s.content.as_ref()).collect::<String>()
CellText(cell_spans) ==
    IF cell_spans = <<>> THEN <<>>
    ELSE Chars(Head(cell_spans).content) \o CellText(Tail(cell_spans))

BarSpan == Span(Lit("bar"), Fg(DefaultStyle, "DarkGray"))

\* The spans build_table_row_line adds for column i of a row.
RowCell(row, col_widths, is_header, i) ==
    LET cell_spans == IF i <= Len(row) THEN row[i] ELSE <<>>
        content_len == SumLens(cell_spans)
        padding == SaturatingSub(col_widths[i], content_len)
        left_pad == padding \div 2
        right_pad == padding - left_pad
    IN  (IF is_header
         THEN <<Span(Content("header", left_pad, right_pad, CellText(cell_spans)),
                     AddModifier(Fg(DefaultStyle, "Cyan"), "BOLD"))>>
         ELSE <<Span(Spaces(left_pad), DefaultStyle)>>
              \o cell_spans
              \o <<Span(Spaces(right_pad), DefaultStyle)>>)
        \o <<BarSpan>>

RECURSIVE RowCells(_, _, _, _)
RowCells(row, col_widths, is_header, i) ==
    IF i > Len(col_widths) THEN <<>>
    ELSE RowCell(row, col_widths, is_header, i)
         \o RowCells(row, col_widths, is_header, i + 1)

\* A row line that ends with the last cell the row has.
build_table_row_line_Short(row, col_widths, is_header) ==
    <<BarSpan>> \o RowCells(row, SubSeq(col_widths, 1, Len(row)), is_header, 1)

build_table_row_line(row, col_widths, is_header) ==
    <<BarSpan>> \o RowCells(row, col_widths, is_header, 1)

BorderLine(col_widths, left, mid, right) ==
    <<Span(Content("border", 0, 0, build_table_border(col_widths, left, mid, right)),
           Fg(DefaultStyle, "DarkGray"))>>

\* The lines end_table appends for a table with a row and a column.
TableLines(header_rows, body_rows) ==
    LET col_widths == ColWidths(header_rows \o body_rows) IN
    <<BorderLine(col_widths, "TopLeft", "TopMid", "TopRight")>>
    \o [i \in 1..Len(header_rows) |->
            build_table_row_line(header_rows[i], col_widths, TRUE)]
    \o <<BorderLine(col_widths, "MidLeft", "MidMid", "MidRight")>>
    \o [i \in 1..Len(body_rows) |->
            build_table_row_line(body_rows[i], col_widths, FALSE)]
    \o <<BorderLine(col_widths, "BotLeft", "BotMid", "BotRight")>>

\* -- tag end handlers --

\* An end of a heading that leaves the heading's style on the stack.
end_heading_NoPop(self) == push_blank_line(flush_spans(self))

end_heading(self) ==
    push_blank_line(flush_spans([self EXCEPT !.style_stack = Pop(@)]))

end_paragraph(self) ==
    push_blank_line(flush_spans(self))

\* The label line of a code block with a language tag.
LabelLine(lang) ==
    <<Span(Str("label", lang), Bg(Fg(DefaultStyle, "DarkGray"), CODE_BG))>>

\* An end of a code block that puts the label after the body.
end_code_block_LabelLast(self) ==
    LET code == TrimEndNewlines(self.code_block_buf)
        lang == self.code_block_lang
        highlighted == highlight_code(code, lang)
    IN  push_blank_line(
            [self EXCEPT
                !.in_code_block = FALSE,
                !.code_block_buf = <<>>,
                !.code_block_lang = <<>>,
                !.lines = @ \o highlighted
                            \o (IF lang # <<>> THEN <<LabelLine(lang)>> ELSE <<>>)])

end_code_block(self) ==
    LET code == TrimEndNewlines(self.code_block_buf)
        lang == self.code_block_lang
        highlighted == highlight_code(code, lang)
    IN  push_blank_line(
            [self EXCEPT
                !.in_code_block = FALSE,
                !.code_block_buf = <<>>,
                !.code_block_lang = <<>>,
                !.lines = @ \o (IF lang # <<>> THEN <<LabelLine(lang)>> ELSE <<>>)
                            \o highlighted])

\* An end of a block quote whose decrement does not saturate.
end_blockquote_Unsaturated(self) ==
    LET s == [self EXCEPT !.blockquote_depth = @ - 1] IN
    IF s.blockquote_depth = 0 THEN push_blank_line(s) ELSE s

end_blockquote(self) ==
    LET s == [self EXCEPT !.blockquote_depth = SaturatingSub(@, 1)] IN
    IF s.blockquote_depth = 0 THEN push_blank_line(s) ELSE s

end_list(self) ==
    LET s == [self EXCEPT !.list_stack = Pop(@)] IN
    IF s.list_stack = <<>> THEN push_blank_line(s) ELSE s

end_item(self) == flush_spans(self)

end_link(self) ==
    LET s == [self EXCEPT !.style_stack = Pop(@), !.link_url = <<>>] IN
    IF self.link_url # <<>>
    THEN [s EXCEPT !.current_spans =
            Append(@, Span(Str("url", self.link_url[1]), Fg(DefaultStyle, "DarkGray")))]
    ELSE s

end_image(self) ==
    [self EXCEPT !.current_spans =
        Append(@, Span(Lit("imgclose"), Fg(DefaultStyle, "DarkGray")))]

end_table(self) ==
    LET header_rows == self.table_header_rows
        body_rows == self.table_body_rows
        all_rows == header_rows \o body_rows
        s == [self EXCEPT !.in_table = FALSE,
                          !.table_header_rows = <<>>,
                          !.table_body_rows = <<>>]
    IN  IF all_rows = <<>> THEN s
        ELSE IF ColCount(all_rows) = 0 THEN s
        ELSE push_blank_line(
                [s EXCEPT !.lines = @ \o TableLines(header_rows, body_rows),
                          !.table_col_count = 0])

\* An end of the head that appends the head's line at once.
end_table_head_Emit(self) ==
    [self EXCEPT !.table_header_rows = Append(@, self.table_row_cells),
                 !.table_row_cells = <<>>,
                 !.in_table_head = FALSE,
                 !.lines = Append(@, build_table_row_line(
                                        self.table_row_cells,
                                        ColWidths(<<self.table_row_cells>>), TRUE))]

\* TagEnd::TableHead
end_table_head(self) ==
    [self EXCEPT !.table_header_rows = Append(@, self.table_row_cells),
                 !.table_row_cells = <<>>,
                 !.in_table_head = FALSE]

\* TagEnd::TableRow
end_table_row(self) ==
    [self EXCEPT !.table_body_rows = Append(@, self.table_row_cells),
                 !.table_row_cells = <<>>]

\* An end of a cell that copies the cell's spans to the row and keeps them.
end_table_cell_Copy(self) ==
    [self EXCEPT !.table_row_cells = Append(@, self.current_cell_spans)]

\* TagEnd::TableCell
end_table_cell(self) ==
    [self EXCEPT !.table_row_cells = Append(@, self.current_cell_spans),
                 !.current_cell_spans = <<>>]

\* -- content handlers --

TextStyle(self) ==
    IF self.blockquote_depth > 0 /\ current_style(self) = DefaultStyle
    THEN AddModifier(DefaultStyle, "ITALIC")
    ELSE current_style(self)

handle_text(self, text) ==
    IF self.in_code_block
    THEN [self EXCEPT !.code_block_buf = @ \o text]
    ELSE IF self.in_table
    THEN [self EXCEPT !.current_cell_spans =
            Append(@, Span(Str("text", text),
                           IF self.in_table_head
                           THEN AddModifier(Fg(DefaultStyle, "Cyan"), "BOLD")
                           ELSE current_style(self)))]
    ELSE [self EXCEPT !.current_spans =
            Append(@, Span(Str("text", text), TextStyle(self)))]

handle_inline_code(self, code) ==
    LET span == Span(Str("code", code), Fg(DefaultStyle, "Magenta")) IN
    IF self.in_table
    THEN [self EXCEPT !.current_cell_spans = Append(@, span)]
    ELSE [self EXCEPT !.current_spans = Append(@, span)]

\* A break that separates like the end of a block.
handle_break_Separate(self) == push_blank_line(flush_spans(self))

handle_break(self) == flush_spans(self)

\* A task marker that adds the checkbox after the spans of start_item.
handle_task_marker_KeepPrefix(self, checked) ==
    LET indent_level == SaturatingSub(Len(self.list_stack), 1) IN
    [self EXCEPT !.current_spans =
        Append(@,
               Span(Content("checkbox", IF checked THEN 1 ELSE 0, indent_level, <<>>),
                    Fg(DefaultStyle, IF checked THEN "Green" ELSE "Yellow")))]

\* The checkbox: v is 1 for the checked glyph and 0 for the unchecked one,
\* n the indent level.
handle_task_marker(self, checked) ==
    LET indent_level == SaturatingSub(Len(self.list_stack), 1) IN
    [self EXCEPT !.current_spans =
        Append(add_blockquote_prefix(self, <<>>),
               Span(Content("checkbox", IF checked THEN 1 ELSE 0, indent_level, <<>>),
                    Fg(DefaultStyle, IF checked THEN "Green" ELSE "Yellow")))]

RuleLine == <<Span(Lit("rule"), Fg(DefaultStyle, "DarkGray"))>>

handle_rule(self) ==
    push_blank_line([flush_spans(self) EXCEPT !.lines = Append(@, RuleLine)])

\* -- events --

\* An event: its type, for Start and End its tag, and what it carries: the
\* number n (a heading's level, a task marker's checked flag) and the string
\* or option s (a text, a language tag, a destination, a list's first
\* number).
Ev(type, tag, n, s) == [type |-> type, tag |-> tag, n |-> n, s |-> s]

Start(tag) == Ev("Start", tag, 0, <<>>)
End(tag) == Ev("End", tag, 0, <<>>)

start_tag(self, e) ==
    CASE e.tag = "Heading"       -> start_heading(self, e.n)
      [] e.tag = "Paragraph"     -> start_paragraph(self)
      [] e.tag = "Strong"        -> push_modifier(self, "BOLD")
      [] e.tag = "Emphasis"      -> push_modifier(self, "ITALIC")
      [] e.tag = "Strikethrough" -> push_modifier(self, "CROSSED_OUT")
      [] e.tag = "CodeBlock"     ->
            start_code_block(self, IF e.n = 1 THEN <<"Fenced", e.s>> ELSE <<"Indented">>)
      [] e.tag = "BlockQuote"    -> start_blockquote(self)
      [] e.tag = "List"          -> start_list(self, e.s)
      [] e.tag = "Item"          -> start_item(self)
      [] e.tag = "Link"          -> start_link(self, e.s)
      [] e.tag = "Image"         -> start_image(self, e.s)
      [] e.tag = "Table"         -> start_table(self)
      [] e.tag = "TableHead"     -> [self EXCEPT !.in_table_head = TRUE]
      [] e.tag = "TableRow"      -> [self EXCEPT !.table_row_cells = <<>>]
      [] e.tag = "TableCell"     -> [self EXCEPT !.current_cell_spans = <<>>]
      [] OTHER                   -> self

end_tag(self, e) ==
    CASE e.tag = "Heading"       -> end_heading(self)
      [] e.tag = "Paragraph"     -> end_paragraph(self)
      [] e.tag \in {"Strong", "Emphasis", "Strikethrough"} ->
            [self EXCEPT !.style_stack = Pop(@)]
      [] e.tag = "CodeBlock"     -> end_code_block(self)
      [] e.tag = "BlockQuote"    -> end_blockquote(self)
      [] e.tag = "List"          -> end_list(self)
      [] e.tag = "Item"          -> end_item(self)
      [] e.tag = "Link"          -> end_link(self)
      [] e.tag = "Image"         -> end_image(self)
      [] e.tag = "Table"         -> end_table(self)
      [] e.tag = "TableHead"     -> end_table_head(self)
      [] e.tag = "TableRow"      -> end_table_row(self)
      [] e.tag = "TableCell"     -> end_table_cell(self)
      [] OTHER                   -> self

process_event(self, e) ==
    CASE e.type = "Start"          -> start_tag(self, e)
      [] e.type = "End"            -> end_tag(self, e)
      [] e.type = "Text"           -> handle_text(self, e.s)
      [] e.type = "Code"           -> handle_inline_code(self, e.s)
      [] e.type \in {"SoftBreak", "HardBreak"} -> handle_break(self)
      [] e.type = "TaskListMarker" -> handle_task_marker(self, e.n = 1)
      [] e.type = "Rule"           -> handle_rule(self)
      [] OTHER                     -> self

RECURSIVE PopBlank(_)
\* while self.lines.last().is_some_and(|l| line_is_blank(l)) { self.lines.pop(); }
PopBlank(lines) == IF LastIsBlank(lines) THEN PopBlank(Front(lines)) ELSE lines

\* An end of render that leaves the pending spans out.
finish_NoFlush(self) ==
    LET trimmed == PopBlank(self.lines)
    IN  [self EXCEPT !.lines = IF trimmed = <<>> THEN <<BlankLine>> ELSE trimmed]

\* The end of render, after the event loop.
finish(self) ==
    LET flushed == flush_spans(self)
        trimmed == PopBlank(flushed.lines)
    IN  [flushed EXCEPT !.lines = IF trimmed = <<>> THEN <<BlankLine>> ELSE trimmed]

----------------------------------------------------------------------------
(* The event stream.  The parser is not part of the renderer: the model     *)
(* hands process_event any well-formed stream of the class `mode` names,    *)
(* one event at a time.  `open` holds the tags started and not yet ended,   *)
(* each with what the parser knows of it: a (a list's or an item's          *)
(* tightness: 1 tight, 0 loose), b (a list's first number, -1 for an        *)
(* unordered list; a table's column count) and c (the items of a list or    *)
(* the cells of a row started so far).                                       *)

\* Bounds of the exploration, by class of documents.
MaxInputLen == 3
MaxEventsInput == 4
MaxEventsDoc == 7
MaxDepthDoc == 4
MaxEventsLists == 13
MaxDepthLists == 12
MaxEventsTable == 16
MaxCols == 2
MaxRows == 1
MaxCellItems == 2
MaxEventsCode == 9
MaxEventsTasks == 12
MaxDepthTasks == 4
MaxDepthCode == 3
MaxEventsInline == 8
MaxEventsPair == 6
MaxEventsCells == 12
MaxEventsExtra == 6
MaxEventsBlocks == 9
MaxDepthBlocks == 3
MaxDepthCells == 4
MaxDepthInline == 3

MaxEvents ==
    CASE mode = "input"  -> MaxEventsInput
      [] mode = "doc"    -> MaxEventsDoc
      [] mode = "lists"  -> MaxEventsLists
      [] mode = "table"  -> MaxEventsTable
      [] mode = "code"   -> MaxEventsCode
      [] mode = "tasks"  -> MaxEventsTasks
      [] mode = "inline" -> MaxEventsInline
      [] mode = "pair"   -> MaxEventsPair
      [] mode = "cells"  -> MaxEventsCells
      [] mode = "extra"  -> MaxEventsExtra
      [] mode = "blocks" -> MaxEventsBlocks
      [] OTHER           -> 0

MaxDepth ==
    CASE mode = "doc"   -> MaxDepthDoc
      [] mode = "lists" -> MaxDepthLists
      [] mode = "tasks" -> MaxDepthTasks
      [] mode = "code"  -> MaxDepthCode
      [] mode = "inline" -> MaxDepthInline
      [] mode = "cells" -> MaxDepthCells
      [] mode = "blocks" -> MaxDepthBlocks
      [] OTHER          -> 4

O(tag, a, b, c) == [tag |-> tag, a |-> a, b |-> b, c |-> c]

Top == IF open = <<>> THEN O("Doc", 0, 0, 0) ELSE Last(open)

Prev == IF events = <<>> THEN Ev("None", "", 0, <<>>) ELSE Last(events)

InOpen(tag) == \E i \in 1..Len(open) : open[i].tag = tag

InlineTags == {"Strong", "Emphasis", "Strikethrough", "Link", "Image"}

AfterBreak == Prev.type \in {"SoftBreak", "HardBreak"}

\* Inline content may come next: in a paragraph, a heading, a table cell or
\* an inline scope, and directly in an item of a tight list.
InlineCtx ==
    \/ Top.tag \in {"Paragraph", "Heading", "TableCell"} \cup InlineTags
    \/ Top.tag = "Item" /\ Top.a = 1

\* A block may start next: in the document, a block quote or an item, and
\* not right after a line break.
BlockCtx == ~AfterBreak /\ Top.tag \in {"Doc", "BlockQuote", "Item"}

\* The character of the text the next event carries: one visible character
\* for each position of the stream, so that two texts never share a
\* character.
NextChar == 3 + Len(events)

\* One step of the event loop: process_event(e), the nesting becoming opn.
Walk(e, opn) ==
    /\ pc = "walk"
    /\ Len(events) < MaxEvents
    /\ r' = process_event(r, e)
    /\ events' = Append(events, e)
    /\ open' = opn
    /\ UNCHANGED <<mode, input, pc, output, calls>>

Push(tag, a, b, c) == Append(open, O(tag, a, b, c))

CanPush == Len(open) < MaxDepth

\* The tags that have content in every stream.  The parser gives the head
\* of a table a cell and a table a head; the class "table" also explores a
\* head without cells and a table without rows, which end_table provides
\* for.
NeverEmpty ==
    {"Paragraph", "Strong", "Emphasis", "Strikethrough", "List"}
    \cup (IF mode = "table" THEN {} ELSE {"TableHead"})

\* End(tag) may come next: tag is the innermost open tag, not right after a
\* line break, and a tag that cannot be empty has content.
CanEnd(tag) ==
    /\ Top.tag = tag
    /\ ~AfterBreak
    /\ tag \in NeverEmpty => ~(Prev.type = "Start" /\ Prev.tag = tag)

HeadingLevels == IF mode = "inline" THEN {1, 2, 3} ELSE {1}

StartHeading ==
    /\ BlockCtx /\ CanPush
    /\ \E level \in HeadingLevels :
          Walk(Ev("Start", "Heading", level, <<>>), Push("Heading", 0, 0, 0))

EndHeading == CanEnd("Heading") /\ Walk(End("Heading"), Front(open))

\* A paragraph is a child of the document, a block quote or a loose item.
StartParagraph ==
    /\ BlockCtx /\ CanPush
    /\ ~(Top.tag = "Item" /\ Top.a = 1)
    /\ Walk(Start("Paragraph"), Push("Paragraph", 0, 0, 0))

EndParagraph == CanEnd("Paragraph") /\ Walk(End("Paragraph"), Front(open))

StartBlockQuote ==
    /\ BlockCtx /\ CanPush
    /\ Walk(Start("BlockQuote"), Push("BlockQuote", 0, 0, 0))

EndBlockQuote == CanEnd("BlockQuote") /\ Walk(End("BlockQuote"), Front(open))

\* The first numbers of the ordered lists explored.
ListStarts == IF mode = "lists" THEN {1, 7} ELSE {1}

Tightness == IF mode \in {"lists", "tasks", "code"} THEN {1} ELSE {0, 1}

\* Whether ordered lists are explored.
OrderedLists == mode \notin {"tasks", "code"}

StartList ==
    /\ BlockCtx /\ CanPush
    /\ \E tight \in Tightness :
          \/ Walk(Ev("Start", "List", 0, <<>>), Push("List", tight, -1, 0))
          \/ \E s \in ListStarts :
                OrderedLists /\
                Walk(Ev("Start", "List", 0, <<s>>), Push("List", tight, s, 0))

EndList == CanEnd("List") /\ Walk(End("List"), Front(open))

StartItem ==
    /\ Top.tag = "List" /\ CanPush
    /\ Walk(Start("Item"),
            Append([open EXCEPT ![Len(open)].c = @ + 1], O("Item", Top.a, 0, 0)))

EndItem == CanEnd("Item") /\ Walk(End("Item"), Front(open))

\* The marker of a task item comes right after the item's start.
TaskListMarker ==
    /\ Top.tag = "Item" /\ Prev = Start("Item")
    /\ \E checked \in {0, 1} : Walk(Ev("TaskListMarker", "", checked, <<>>), open)

\* The language tags of the code blocks explored.
Langs == {<<>>, LangRust, LangUnknown}

StartCodeBlock ==
    /\ BlockCtx /\ CanPush
    /\ \/ \E lang \in Langs :
            Walk(Ev("Start", "CodeBlock", 1, lang), Push("CodeBlock", 0, 0, 0))
       \/ mode = "code"
            /\ Walk(Ev("Start", "CodeBlock", 0, <<>>), Push("CodeBlock", 0, 0, 0))

EndCodeBlock == CanEnd("CodeBlock") /\ Walk(End("CodeBlock"), Front(open))

\* The text of a code block comes in chunks: a line with its line ending,
\* an empty line, or (in the class "code") a line without its line ending.
CodeChunks ==
    {<<NextChar, NL>>, <<NL>>} \cup (IF mode = "code" THEN {<<NextChar>>} ELSE {})

CodeText ==
    /\ Top.tag = "CodeBlock"
    /\ \E chunk \in CodeChunks : Walk(Ev("Text", "", 0, chunk), open)

\* The lengths of the texts explored.
TextLens == IF mode = "table" THEN {1, 4} ELSE {1}

\* In the classes that explore deep nesting a text is the first thing of its
\* item.
TextPlace ==
    /\ mode \in {"lists", "tasks", "code"} =>
          \/ Prev \in {Start("Item"), Start("Paragraph")}
          \/ Prev.type = "TaskListMarker"
    /\ mode \in {"inline", "blocks"} => Prev.type \notin {"Text", "Code"}

\* In the classes "table" and "cells" a cell holds at most MaxCellItems
\* pieces of inline content, and a link, an image or a style scope one.
CellRoom ==
    mode \in {"table", "cells", "blocks"} /\ InOpen("TableCell") =>
        \/ Top.tag = "TableCell" /\ Top.c < MaxCellItems
        \/ Top.tag \in InlineTags /\ Prev.type = "Start"

\* The nesting after a text or a link was added to the innermost open tag.
Counted == [open EXCEPT ![Len(open)].c = @ + 1]

\* The characters of the texts explored: in the class "cells" a text may be
\* made of a non-ASCII character.
TextChars ==
    {NextChar} \cup (IF mode = "cells" THEN {WideFrom + Len(events)} ELSE {})

Text ==
    /\ InlineCtx /\ TextPlace /\ CellRoom
    /\ \E len \in TextLens, ch \in TextChars :
          Walk(Ev("Text", "", 0, Repeat(ch, len)),
               IF Top.tag = "TableCell" THEN Counted ELSE open)

Code ==
    /\ InlineCtx /\ TextPlace /\ CellRoom
    /\ Walk(Ev("Code", "", 0, <<NextChar>>),
            IF Top.tag = "TableCell" THEN Counted ELSE open)

\* A line break stands between two pieces of inline content, outside
\* headings and table cells.
CanBreak ==
    /\ InlineCtx
    /\ ~InOpen("Heading") /\ ~InOpen("TableCell")
    /\ \/ Prev.type \in {"Text", "Code", "InlineHtml"}
       \/ Prev.type = "End" /\ Prev.tag \in InlineTags

\* Inline HTML, which process_event ignores: explored as the first thing of
\* a paragraph.
InlineHtml ==
    /\ Top.tag = "Paragraph" /\ Prev = Start("Paragraph")
    /\ Walk(Ev("InlineHtml", "", 0, <<NextChar>>), open)

SoftBreak == CanBreak /\ Walk(Ev("SoftBreak", "", 0, <<>>), open)

HardBreak == CanBreak /\ Walk(Ev("HardBreak", "", 0, <<>>), open)

StartTable ==
    /\ BlockCtx /\ CanPush
    /\ Walk(Start("Table"), Push("Table", 0, 0, 0))

\* A table ends after its head or after a row.
BetweenRows ==
    /\ Top.tag = "Table"
    /\ Prev \in {End("TableHead"), End("TableRow")}

EndTable ==
    /\ \/ BetweenRows
       \/ mode = "table" /\ Top.tag = "Table" /\ Prev = Start("Table")
    /\ Walk(End("Table"), Front(open))

StartTableHead ==
    /\ Top.tag = "Table" /\ Prev = Start("Table")
    /\ Walk(Start("TableHead"), Push("TableHead", 0, 0, 0))

\* The end of the head fixes the table's column count.
EndTableHead ==
    /\ CanEnd("TableHead")
    /\ Walk(End("TableHead"),
            [Front(open) EXCEPT ![Len(open) - 1].b = Top.c])

StartTableRow ==
    /\ BetweenRows
    /\ Top.c < MaxRows
    /\ Walk(Start("TableRow"),
            Append([open EXCEPT ![Len(open)].c = @ + 1], O("TableRow", 0, 0, 0)))

EndTableRow == CanEnd("TableRow") /\ Walk(End("TableRow"), Front(open))

\* A cell of the head, or of a row that has fewer cells than the head.
StartTableCell ==
    /\ \/ Top.tag = "TableHead" /\ Top.c < MaxCols
       \/ Top.tag = "TableRow" /\ Top.c < open[Len(open) - 1].b
    /\ Walk(Start("TableCell"),
            Append([open EXCEPT ![Len(open)].c = @ + 1], O("TableCell", 0, 0, 0)))

EndTableCell == CanEnd("TableCell") /\ Walk(End("TableCell"), Front(open))

\* A link is not nested in a link.
StartLink ==
    /\ InlineCtx /\ CanPush /\ CellRoom
    /\ ~InOpen("Link")
    /\ Walk(Ev("Start", "Link", 0, <<NextChar>>),
            Append(IF Top.tag = "TableCell" THEN Counted ELSE open,
                   O("Link", 0, 0, 0)))

EndLink == CanEnd("Link") /\ Walk(End("Link"), Front(open))

\* An image is not nested in an image; its content is its alternative text.
StartImage ==
    /\ InlineCtx /\ CanPush /\ CellRoom
    /\ ~InOpen("Image")
    /\ Walk(Ev("Start", "Image", 0, <<NextChar>>),
            Append(IF Top.tag = "TableCell" THEN Counted ELSE open,
                   O("Image", 0, 0, 0)))

EndImage == CanEnd("Image") /\ Walk(End("Image"), Front(open))

\* The style scopes; a scope is not nested in a scope of its own tag.
StyleTags == {"Strong", "Emphasis", "Strikethrough"}

StartStyle ==
    /\ InlineCtx /\ CanPush /\ CellRoom
    /\ \E tag \in StyleTags :
          /\ ~InOpen(tag)
          /\ Walk(Start(tag),
                  Append(IF Top.tag = "TableCell" THEN Counted ELSE open,
                         O(tag, 0, 0, 0)))

EndStyle == \E tag \in StyleTags : CanEnd(tag) /\ Walk(End(tag), Front(open))

\* The tags of the Ends explored without a Start.
ExtraTags ==
    {"Strong", "Emphasis", "Strikethrough", "Heading", "Paragraph", "Link",
     "List", "Item", "BlockQuote", "Table", "CodeBlock"}

\* An End without a matching Start (n = 1 marks it): of a tag that is not
\* open, once in a stream.
Unmatched(tag) == Ev("End", tag, 1, <<>>)

ExtraEnd ==
    /\ \A i \in 1..Len(events) : events[i].n # 1 \/ events[i].type # "End"
    /\ \E tag \in ExtraTags : ~InOpen(tag) /\ Walk(Unmatched(tag), open)

Rule == BlockCtx /\ Walk(Ev("Rule", "", 0, <<>>), open)

\* A render that returns early only for the empty string.
Render_NoTrim ==
    /\ pc = "init"
    /\ IF input = <<>>
       THEN pc' = "done" /\ output' = <<BlankLine>>
       ELSE pc' = "walk" /\ output' = output
    /\ UNCHANGED <<mode, input, events, open, r, calls>>

\* render up to the event loop: the early return for a blank input.
Render ==
    /\ pc = "init"
    /\ IF Trim(input) = <<>>
       THEN pc' = "done" /\ output' = <<BlankLine>>
       ELSE pc' = "walk" /\ output' = output
    /\ UNCHANGED <<mode, input, events, open, r, calls>>

\* render after the event loop: the stream is exhausted when every tag is
\* ended.
Finish ==
    /\ pc = "walk"
    /\ open = <<>>
    /\ r' = finish(r)
    /\ output' = r'.lines
    /\ pc' = "done"
    /\ UNCHANGED <<mode, input, events, open, calls>>

\* A call of render that has not begun.
NotCalled == [pc |-> "init", r |-> new, k |-> 0, output |-> <<>>]

\* A call that begins on the Renderer the other call holds.
Call_Shared(i) ==
    /\ pc = "done"
    /\ calls[i].pc = "init"
    /\ calls' = [calls EXCEPT ![i] = [@ EXCEPT !.pc = "walk", !.r = calls[3 - i].r]]
    /\ UNCHANGED <<mode, input, pc, events, open, r, output>>

\* render(input): call i constructs its Renderer and enters the event loop
\* (the input is not blank).  The events it will process are those of the
\* input, known since the first render returned.
Call(i) ==
    /\ pc = "done"
    /\ calls[i].pc = "init"
    /\ calls' = [calls EXCEPT ![i] = [@ EXCEPT !.pc = "walk", !.r = new]]
    /\ UNCHANGED <<mode, input, pc, events, open, r, output>>

\* One step of the event loop of call i.
Step(i) ==
    /\ calls[i].pc = "walk"
    /\ calls[i].k < Len(events)
    /\ calls' = [calls EXCEPT ![i] =
            [@ EXCEPT !.r = process_event(@, events[calls[i].k + 1]),
                      !.k = @ + 1]]
    /\ UNCHANGED <<mode, input, pc, events, open, r, output>>

\* Call i returns, after the event loop.
Return(i) ==
    /\ calls[i].pc = "walk"
    /\ calls[i].k = Len(events)
    /\ calls' = [calls EXCEPT ![i] =
            [@ EXCEPT !.pc = "done", !.r = finish(@), !.output = finish(calls[i].r).lines]]
    /\ UNCHANGED <<mode, input, pc, events, open, r, output>>

InitMode(m, inputs) ==
    /\ mode = m
    /\ input \in inputs
    /\ pc = "init"
    /\ events = <<>>
    /\ open = <<>>
    /\ r = new
    /\ output = <<>>
    /\ calls = [i \in 1..2 |-> NotCalled]

\* Some input that is not blank.
SomeInput == {<<3>>}

\* The class "doc": blocks and their nesting.
Init == InitMode("doc", SomeInput)

Next ==
    \/ Render
    \/ StartHeading \/ EndHeading
    \/ StartParagraph \/ EndParagraph
    \/ StartBlockQuote \/ EndBlockQuote
    \/ StartList \/ EndList
    \/ StartItem \/ EndItem
    \/ TaskListMarker
    \/ StartCodeBlock \/ EndCodeBlock \/ CodeText
    \/ Text \/ InlineHtml \/ SoftBreak \/ HardBreak
    \/ Rule
    \/ Finish

Spec == Init /\ [][Next]_vars

\* The class "input": every short input string, and for those that are not
\* blank the streams of a paragraph.
RECURSIVE Strings(_, _)
\* The strings over alphabet of length at most n.
Strings(alphabet, n) ==
    IF n = 0 THEN {<<>>}
    ELSE LET shorter == Strings(alphabet, n - 1) IN
         shorter \cup {Append(s, c) : s \in shorter, c \in alphabet}

InitInput == InitMode("input", Strings({NL, SP, 3}, MaxInputLen))

NextInput ==
    \/ Render
    \/ StartParagraph \/ EndParagraph
    \/ Text \/ SoftBreak
    \/ Finish

SpecInput == InitInput /\ [][NextInput]_vars

\* The class "lists": tight lists, ordered and unordered, nested deeply.
InitLists == InitMode("lists", SomeInput)

NextLists ==
    \/ Render
    \/ StartList \/ EndList
    \/ StartItem \/ EndItem
    \/ Text
    \/ Finish

SpecLists == InitLists /\ [][NextLists]_vars

\* The class "tasks": tight unordered lists with task markers, block quotes
\* and paragraphs.
InitTasks == InitMode("tasks", SomeInput)

NextTasks ==
    \/ Render
    \/ StartBlockQuote \/ EndBlockQuote
    \/ StartList \/ EndList
    \/ StartItem \/ EndItem
    \/ TaskListMarker
    \/ StartParagraph \/ EndParagraph
    \/ Text
    \/ Finish

SpecTasks == InitTasks /\ [][NextTasks]_vars

\* The class "code": code blocks of every kind, in the document and in the
\* items of a tight list.
InitCode == InitMode("code", SomeInput)

NextCode ==
    \/ Render
    \/ StartList \/ EndList
    \/ StartItem \/ EndItem
    \/ Text
    \/ StartCodeBlock \/ EndCodeBlock \/ CodeText
    \/ Finish

SpecCode == InitCode /\ [][NextCode]_vars

\* The class "inline": headings of three levels, paragraphs and block
\* quotes holding style scopes, links, images, inline code and hard breaks.
InitInline == InitMode("inline", SomeInput)

NextInline ==
    \/ Render
    \/ StartHeading \/ EndHeading
    \/ StartParagraph \/ EndParagraph
    \/ StartBlockQuote \/ EndBlockQuote
    \/ StartStyle \/ EndStyle
    \/ StartLink \/ EndLink
    \/ StartImage \/ EndImage
    \/ Text \/ Code \/ HardBreak
    \/ Finish

SpecInline == InitInline /\ [][NextInline]_vars

\* The class "pair": a render of a short document, then two more renders
\* of the same input, their steps interleaved in every order.
InitPair == InitMode("pair", SomeInput)

NextPair ==
    \/ Render
    \/ StartHeading \/ EndHeading
    \/ StartParagraph \/ EndParagraph
    \/ StartCodeBlock \/ EndCodeBlock \/ CodeText
    \/ Text \/ SoftBreak
    \/ Rule
    \/ Finish
    \/ \E i \in 1..2 : Call(i)
    \/ \E i \in 1..2 : Step(i)
    \/ \E i \in 1..2 : Return(i)

SpecPair == InitPair /\ [][NextPair]_vars

\* The class "table": one or more tables, their cells holding texts of
\* two lengths and links.
InitTable == InitMode("table", SomeInput)

NextTable ==
    \/ Render
    \/ StartTable \/ EndTable
    \/ StartTableHead \/ EndTableHead
    \/ StartTableRow \/ EndTableRow
    \/ StartTableCell \/ EndTableCell
    \/ Text
    \/ StartLink \/ EndLink
    \/ Finish

SpecTable == InitTable /\ [][NextTable]_vars

\* The class "cells": tables whose cells hold texts (of ASCII and of
\* non-ASCII characters), inline code, links,
\* images and style scopes.
InitCells == InitMode("cells", SomeInput)

NextCells ==
    \/ Render
    \/ StartTable \/ EndTable
    \/ StartTableHead \/ EndTableHead
    \/ StartTableRow \/ EndTableRow
    \/ StartTableCell \/ EndTableCell
    \/ Text \/ Code
    \/ StartLink \/ EndLink
    \/ StartImage \/ EndImage
    \/ StartStyle \/ EndStyle
    \/ Finish

SpecCells == InitCells /\ [][NextCells]_vars

\* The class "blocks": every kind of block, tables and code blocks in list
\* items and block quotes included, and links.
InitBlocks == InitMode("blocks", SomeInput)

NextBlocks ==
    \/ Render
    \/ StartHeading \/ EndHeading
    \/ StartParagraph \/ EndParagraph
    \/ StartBlockQuote \/ EndBlockQuote
    \/ StartList \/ EndList
    \/ StartItem \/ EndItem
    \/ StartCodeBlock \/ EndCodeBlock \/ CodeText
    \/ StartTable \/ EndTable
    \/ StartTableHead \/ EndTableHead
    \/ StartTableRow \/ EndTableRow
    \/ StartTableCell \/ EndTableCell
    \/ Text
    \/ StartLink \/ EndLink
    \/ Finish

SpecBlocks == InitBlocks /\ [][NextBlocks]_vars

\* The class "extra": streams of blocks with one End that has no Start,
\* which the parser never makes.
InitExtra == InitMode("extra", SomeInput)

NextExtra ==
    \/ Render
    \/ StartHeading \/ EndHeading
    \/ StartParagraph \/ EndParagraph
    \/ StartBlockQuote \/ EndBlockQuote
    \/ StartList \/ EndList
    \/ StartItem \/ EndItem
    \/ Text
    \/ ExtraEnd
    \/ Finish

SpecExtra == InitExtra /\ [][NextExtra]_vars

----------------------------------------------------------------------------
(* The claims *)

\* C1: for an input that is empty or holds only whitespace, render returns
\* exactly one line, that line is blank, and no event is processed: the
\* event loop is never entered and the renderer's fields are untouched.
C1_BlankInput ==
    AllWhitespace(input) =>
        /\ pc # "walk"
        /\ events = <<>>
        /\ r = new
        /\ pc = "done" => Len(output) = 1 /\ line_is_blank(output[1])

\* A render of "  \n" (spaces and a line ending) has returned.
C1_Witness ==
    /\ pc = "done"
    /\ input = <<SP, SP, NL>>
    /\ output = <<BlankLine>>

\* The lists among the open tags, outermost first.
OpenLists == SelectSeq(open, LAMBDA o : o.tag = "List")

\* The number of block quotes among the open tags.
OpenQuotes == Len(SelectSeq(open, LAMBDA o : o.tag = "BlockQuote"))

\* The marker span start_item has just put at the end of the pending spans.
PendingMarker == Last(r.current_spans).content

\* C4: the i-th item of an ordered list declared with first number S gets the
\* prefix S + i - 1, whatever lists are nested in its items: every open list
\* has its own counter, which stands at S plus the number of items the list
\* has started, and the items of a nested list leave it alone.
C4_OrderedNumbers ==
    pc = "walk" =>
        /\ Len(r.list_stack) = Len(OpenLists)
        /\ \A k \in 1..Len(OpenLists) :
              OpenLists[k].b >= 0 =>
                  r.list_stack[k] = Ordered(OpenLists[k].b + OpenLists[k].c)
        /\ (Prev = Start("Item") /\ Last(OpenLists).b >= 0) =>
              /\ PendingMarker.k = "number"
              /\ PendingMarker.v = Last(OpenLists).b + Last(OpenLists).c - 1

\* The second item of a list that starts at 7 gets 8, after a nested ordered
\* list with an item of its own was ended in the first item.
C4_Witness ==
    /\ pc = "walk"
    /\ Len(events) = 8
    /\ events[1] = Ev("Start", "List", 0, <<7>>)
    /\ events[3] = Ev("Start", "List", 0, <<1>>)
    /\ events[6] = End("List")
    /\ Prev = Start("Item")
    /\ Len(open) = 2
    /\ PendingMarker.k = "number" /\ PendingMarker.v = 8

\* C5: an item of an unordered list that was opened with d lists already open
\* gets the glyph d mod 3 of the palette: the first glyph at depths 0 and 3,
\* the second at 1 and 4, the third at 2 and 5.
C5_BulletGlyph ==
    (pc = "walk" /\ Prev = Start("Item") /\ Last(OpenLists).b = -1) =>
        LET d == Len(OpenLists) - 1 IN
        PendingMarker.k =
            CASE d % 3 = 0 -> "Bullet"
              [] d % 3 = 1 -> "WhiteBullet"
              [] OTHER     -> "SmallSquare"

\* An item at the sixth level of unordered lists gets the third glyph.
C5_Witness ==
    /\ pc = "walk"
    /\ Prev = Start("Item")
    /\ Len(OpenLists) = 6
    /\ \A k \in 1..6 : OpenLists[k].b = -1
    /\ PendingMarker.k = "SmallSquare"

CheckboxSpan(checked, indent_level) ==
    Span(Content("checkbox", checked, indent_level, <<>>),
         Fg(DefaultStyle, IF checked = 1 THEN "Green" ELSE "Yellow"))

\* The number of items of a stream that is one tight task list, each item a
\* marker and a text; 0 for any other stream.
TaskItems(evs) ==
    IF /\ Len(evs) >= 6
       /\ (Len(evs) - 2) % 4 = 0
       /\ evs[1] = Ev("Start", "List", 0, <<>>)
       /\ evs[Len(evs)] = End("List")
       /\ \A i \in 0..((Len(evs) - 2) \div 4 - 1) :
             /\ evs[2 + 4 * i] = Start("Item")
             /\ evs[3 + 4 * i].type = "TaskListMarker"
             /\ evs[4 + 4 * i].type = "Text"
             /\ evs[5 + 4 * i] = End("Item")
    THEN (Len(evs) - 2) \div 4
    ELSE 0

\* C9: right after a task marker the pending spans are one quote marker for
\* each open block quote and then the checkbox alone (green and checked, or
\* yellow and unchecked) in place of the bullet; and a document that is one
\* tight task list of N items is returned as N lines, the i-th made of the
\* i-th item's checkbox and text.
C9_TaskMarker ==
    /\ (pc = "walk" /\ Prev.type = "TaskListMarker") =>
          r.current_spans =
              Repeat(QuoteSpan, OpenQuotes)
              \o <<CheckboxSpan(Prev.n, Len(OpenLists) - 1)>>
    /\ (pc = "done" /\ TaskItems(events) > 0) =>
          /\ Len(output) = TaskItems(events)
          /\ \A i \in 1..TaskItems(events) :
                output[i] = <<CheckboxSpan(events[4 * i - 1].n, 0),
                              Span(Str("text", events[4 * i].s), DefaultStyle)>>

\* The list of a checked and an unchecked item is returned as two lines.
C9_Witness ==
    /\ pc = "done"
    /\ TaskItems(events) = 2
    /\ events[3].n = 1 /\ events[7].n = 0
    /\ Len(output) = 2

\* A task marker in a list in a block quote: the quote marker stays in front
\* of the checkbox.
C9_WitnessQuote ==
    /\ pc = "walk"
    /\ Prev.type = "TaskListMarker"
    /\ OpenQuotes = 1
    /\ Len(r.current_spans) = 2

\* The step that handed End(Table) to process_event.
TableEnds == pc = "walk" /\ events' = Append(events, End("Table"))

\* The lines a step appended to the output.
Appended == SubSeq(r'.lines, Len(r.lines) + 1, Len(r'.lines))

RECURSIVE DashRuns(_, _)
\* The lengths of the runs of dashes of a border, a run ending at each
\* character that is no dash: cur is the length of the run so far.
DashRuns(s, cur) ==
    IF s = <<>> THEN <<>>
    ELSE IF Head(s) = "-" THEN DashRuns(Tail(s), cur + 1)
    ELSE <<cur>> \o DashRuns(Tail(s), 0)

\* The widths of the columns a border shows: its runs of dashes, without the
\* empty run that ends at the left corner.
BorderWidths(s) == Tail(DashRuns(s, 0))

Junctions(s) == SelectSeq(s, LAMBDA ch : ch # "-")

RECURSIVE TextLength(_)
\* The sum of the lengths of the spans of a cell.
TextLength(cell) ==
    IF cell = <<>> THEN 0 ELSE ByteLen(Head(cell).content) + TextLength(Tail(cell))

\* w is the width the claim gives column i of the rows: at least 3, at least
\* the length of each of the column's cells plus 2, and no more than that.
IsWidth(w, rows, i) ==
    /\ w >= 3
    /\ \A j \in 1..Len(rows) : i <= Len(rows[j]) => w >= TextLength(rows[j][i]) + 2
    /\ \/ w = 3
       \/ \E j \in 1..Len(rows) : i <= Len(rows[j]) /\ w = TextLength(rows[j][i]) + 2

\* k is the largest number of cells of a row.
IsColumnCount(k, rows) ==
    /\ \A j \in 1..Len(rows) : Len(rows[j]) <= k
    /\ \E j \in 1..Len(rows) : Len(rows[j]) = k

BorderOf(line) == line[1].content.s

IsBorder(line) == Len(line) = 1 /\ line[1].content.k = "border"

\* C7: when a table with at least one row and one column ends, each of its
\* three borders has one run of dashes for each of the k columns, k being the
\* largest cell count of a row; the run of column i is as long as the longest
\* cell of the column (the sum of the lengths of its spans) plus 2, and at
\* least 3; and the border holds k + 1 junction glyphs: the left corner,
\* k - 1 inner junctions and the right corner.
C7_TableWidths ==
    [][ LET rows == r.table_header_rows \o r.table_body_rows
            borders == SelectSeq(Appended, IsBorder)
        IN  (TableEnds /\ rows # <<>> /\ \E j \in 1..Len(rows) : rows[j] # <<>>) =>
                /\ Len(borders) = 3
                /\ \A b \in 1..3 :
                      LET s == BorderOf(borders[b])
                          k == Len(BorderWidths(s))
                          names == CASE b = 1 -> <<"TopLeft", "TopMid", "TopRight">>
                                     [] b = 2 -> <<"MidLeft", "MidMid", "MidRight">>
                                     [] OTHER -> <<"BotLeft", "BotMid", "BotRight">>
                      IN  /\ IsColumnCount(k, rows)
                          /\ \A i \in 1..k : IsWidth(BorderWidths(s)[i], rows, i)
                          /\ Junctions(s) =
                                <<names[1]>> \o Repeat(names[2], k - 1) \o <<names[3]>>
      ]_vars

\* A table of two columns and two rows has ended: the first column is 6 wide
\* for the 4 characters of its body cell (its head cell, of 1 character, is
\* padded by 5), the second is 3 wide.
C7_Witness ==
    /\ pc = "walk"
    /\ Prev = End("Table")
    /\ Len(r.lines) = 6
    /\ IsBorder(r.lines[1])
    /\ BorderWidths(BorderOf(r.lines[1])) = <<6, 3>>
    /\ r.lines[2][2].content.k = "header"
    /\ Len(r.lines[2][2].content.s) = 1
    /\ r.lines[2][2].content.v + r.lines[2][2].content.n = 5

\* C2: no two adjacent lines of the returned output are both blank.
C2_NoAdjacentBlank ==
    pc = "done" =>
        \A i \in 1..(Len(output) - 1) :
            ~(line_is_blank(output[i]) /\ line_is_blank(output[i + 1]))

\* The step that returns from render after the event loop.
Returns == pc = "walk" /\ pc' = "done"

\* The lines and the pending spans, as one sequence of lines.
WithPending(self) ==
    self.lines \o (IF self.current_spans # <<>> THEN <<self.current_spans>> ELSE <<>>)

\* C3: what render returns after the event loop is never empty and ends with
\* a line that is not blank, unless it is one blank line; it is the lines
\* built so far followed by the line of the pending spans, without the blank
\* lines at their end, or one blank line when all of them are blank.
C3_Output ==
    [][ Returns =>
          LET all == WithPending(r) IN
          /\ output' # <<>>
          /\ ~line_is_blank(Last(output')) \/ output' = <<BlankLine>>
          /\ \/ /\ output' = <<BlankLine>>
                /\ \A i \in 1..Len(all) : line_is_blank(all[i])
             \/ /\ Len(output') <= Len(all)
                /\ output' = SubSeq(all, 1, Len(output'))
                /\ \A i \in (Len(output') + 1)..Len(all) : line_is_blank(all[i])
      ]_vars

\* A render has returned the lines of a table, the blank line after it and
\* last the line of the spans that were pending when the stream ended (the
\* destination of a link).
C3_Witness ==
    /\ pc = "done"
    /\ Len(output) >= 3
    /\ Last(output)[1].content.k = "url"
    /\ line_is_blank(output[Len(output) - 1])

\* Whether line begins with exactly n quote markers.
QuotePrefix(line, n) ==
    /\ Len(line) >= n
    /\ \A i \in 1..n : line[i] = QuoteSpan
    /\ Len(line) > n => line[n + 1] # QuoteSpan

\* C6: every line appended to the output while the block quote depth is
\* n > 0 begins with exactly n quote markers.
C6_QuotePrefix ==
    [][ (pc = "walk" /\ pc' = "walk" /\ r'.blockquote_depth > 0) =>
            \A i \in 1..Len(Appended) : QuotePrefix(Appended[i], r'.blockquote_depth)
      ]_vars

\* The characters of the spans of a line.
LineChars(line) == UNION {{line[i].content.s[j] : j \in 1..Len(line[i].content.s)}
                            : i \in 1..Len(line)}

LinesChars(lines) == UNION {LineChars(lines[i]) : i \in 1..Len(lines)}

\* The visible characters of the texts and inline codes handed to the
\* renderer.
EventChars ==
    UNION {{events[i].s[j] : j \in 1..Len(events[i].s)} \ {NL, SP}
            : i \in {k \in 1..Len(events) : events[k].type \in {"Text", "Code"}}}

\* C8: the text of every Text and inline Code event of the stream appears in
\* the returned lines.
C8_ContentPreserved ==
    pc = "done" => EventChars \subseteq LinesChars(output)

\* The language tag of the code block that is open.
OpenLang ==
    LET starts == {i \in 1..Len(events) :
                      events[i].type = "Start" /\ events[i].tag = "CodeBlock"}
    IN  events[CHOOSE i \in starts : \A j \in starts : j <= i].s

IsLabel(line) == Len(line) = 1 /\ line[1].content.k = "label"

\* C10: a text inside a code block only grows the code buffer: the pending
\* spans, the style stack and the output stay as they are.  The end of the
\* block appends one label line showing the language tag, before every other
\* line it appends, when the tag is not empty, and no label line when it is.
C10_CodeBlock ==
    [][ /\ (pc = "walk" /\ Top.tag = "CodeBlock" /\ events' # events
                /\ Last(events').type = "Text") =>
              /\ r'.current_spans = r.current_spans
              /\ r'.style_stack = r.style_stack
              /\ r'.lines = r.lines
              /\ r'.code_block_buf = r.code_block_buf \o Last(events').s
        /\ (pc = "walk" /\ events' = Append(events, End("CodeBlock"))) =>
              LET labels == SelectSeq(Appended, IsLabel) IN
              IF OpenLang # <<>>
              THEN /\ Len(labels) = 1
                   /\ IsLabel(Appended[1])
                   /\ Appended[1][1].content.s = OpenLang
              ELSE labels = <<>>
      ]_vars

\* A code block tagged rust has ended in a list item whose marker and text
\* are pending: its texts left them pending, and it appended the label, two
\* body lines and the blank line.
C10_Witness ==
    /\ pc = "walk"
    /\ Prev = End("CodeBlock")
    /\ Len(r.current_spans) = 2
    /\ Len(r.lines) = 4
    /\ IsLabel(r.lines[1]) /\ r.lines[1][1].content.s = LangRust
    /\ ~IsLabel(r.lines[2]) /\ ~IsLabel(r.lines[3])
    /\ r.lines[4] = BlankLine

\* The step that handed a Text event to process_event.
TextStep == pc = "walk" /\ events' # events /\ Last(events').type = "Text"

\* The position in open of the innermost open tag of the name, 0 when none
\* is open.
OpenAt(tag) ==
    LET at == {i \in 1..Len(open) : open[i].tag = tag} IN
    IF at = {} THEN 0 ELSE CHOOSE i \in at : \A j \in at : j <= i

\* The position in events of the Start of the innermost open tag of the
\* name.
StartOf(tag) ==
    LET at == {i \in 1..Len(events) :
                  events[i].type = "Start" /\ events[i].tag = tag}
    IN  CHOOSE i \in at : \A j \in at : j <= i

LevelColour(level) ==
    CASE level = 1 -> "Cyan" [] level = 2 -> "Green" [] OTHER -> "Yellow"

\* The stream is one heading and nothing else.
OneHeading ==
    /\ Len(events) >= 2
    /\ events[1].type = "Start" /\ events[1].tag = "Heading"
    /\ Last(events) = End("Heading")
    /\ \A i \in 2..Len(events) :
          ~(events[i].type = "Start" /\ events[i].tag = "Heading")

StyleEnds(tag) == pc = "walk" /\ events' = Append(events, End(tag))

\* The renderer after the first k events of the stream.
RECURSIVE StateAfter(_)
StateAfter(k) ==
    IF k = 0 THEN new ELSE process_event(StateAfter(k - 1), events[k])

\* The style in effect just before the Start of the innermost open tag of
\* the name.
StyleBefore(tag) == current_style(StateAfter(StartOf(tag) - 1))

ModifierOf(tag) ==
    CASE tag = "Strong" -> "BOLD"
      [] tag = "Emphasis" -> "ITALIC"
      [] OTHER -> "CROSSED_OUT"

\* C12: outside tables, code blocks and block quotes a text becomes a span
\* with the style on top of the style stack, which has the modifier of
\* every open Strong, Emphasis and Strikethrough; and after the End of such
\* a scope the style in effect is the one in effect just before its Start,
\* without the scope's modifier when that style did not have it.
C12_StyleScopes ==
    [][ /\ (TextStep /\ ~r.in_table /\ ~r.in_code_block /\ r.blockquote_depth = 0) =>
              LET span == Last(r'.current_spans) IN
              /\ Len(r'.current_spans) = Len(r.current_spans) + 1
              /\ span.style = Last(r.style_stack)
              /\ \A i \in 1..Len(open) :
                    open[i].tag \in StyleTags => ModifierOf(open[i].tag) \in span.style.mods
        /\ \A tag \in StyleTags :
              StyleEnds(tag) =>
                  /\ current_style(r') = StyleBefore(tag)
                  /\ ModifierOf(tag) \notin StyleBefore(tag).mods =>
                        ModifierOf(tag) \notin current_style(r').mods
      ]_vars

\* In a paragraph a text in an Emphasis in a Strong was bold and italic, the
\* Emphasis ended, and the text after it is bold only.
C12_Witness ==
    /\ pc = "walk"
    /\ Prev.type = "Text"
    /\ Len(events) >= 6
    /\ events[Len(events) - 1] = End("Emphasis")
    /\ Len(open) = 2 /\ open[1].tag = "Paragraph" /\ open[2].tag = "Strong"
    /\ Len(r.current_spans) = 2
    /\ r.current_spans[1].style.mods = {"BOLD", "ITALIC"}
    /\ r.current_spans[2].style.mods = {"BOLD"}

SeparatedBlocks == {"Heading", "Paragraph", "List", "BlockQuote", "Table", "CodeBlock"}

\* C14: right after the End of a heading, a paragraph, a list, a block
\* quote, a table or a code block, at any nesting level, no span is pending
\* and the last line of the output is blank.
C14_BlockEnd ==
    [][ \A tag \in SeparatedBlocks :
            (pc = "walk" /\ events' = Append(events, End(tag))) =>
                /\ r'.current_spans = <<>>
                /\ LastIsBlank(r'.lines)
      ]_vars

\* Whether span is the marker of an item at the indent level: a bullet, a
\* number or a checkbox after 2 * indent_level spaces.
IsMarker(span, indent_level) ==
    /\ span.content.k \in {BULLETS[1], BULLETS[2], BULLETS[3], "number", "checkbox"}
    /\ span.content.n = indent_level

\* C15: the first line appended after the Start of an item begins with as
\* many quote markers as the block quote depth at that Start, followed by
\* the item's marker span at the indent level of its list.
C15_ItemPrefix ==
    pc = "walk" =>
        \A i \in {k \in 1..Len(events) : events[k] = Start("Item")} :
            LET at == StateAfter(i)
                n == Len(at.lines)
                depth == at.blockquote_depth
            IN  Len(r.lines) > n =>
                    /\ QuotePrefix(r.lines[n + 1], depth)
                    /\ Len(r.lines[n + 1]) > depth
                    /\ IsMarker(r.lines[n + 1][depth + 1], Len(at.list_stack) - 1)

\* The kinds of the spans of a cell.
KindsOf(cell) == {cell[i].content.k : i \in 1..Len(cell)}

\* C16: from the Start of a table to the event before its End no line is
\* appended to the output, whatever the event: the cells' texts, inline
\* codes, links, images and style scopes go to buffers.  The lines of a
\* table that has a cell are appended by the step of its End.
C16_TableDeferred ==
    [][ /\ (pc = "walk" /\ pc' = "walk" /\ InOpen("Table")
                /\ events' # Append(events, End("Table"))) =>
              r'.lines = r.lines
        /\ (pc = "walk" /\ events' = Append(events, Start("Table"))) =>
              r'.lines = r.lines
        /\ (TableEnds /\ \E j \in 1..Len(r.table_header_rows) :
                            r.table_header_rows[j] # <<>>) =>
              /\ Len(Appended) >= 4
              /\ Len(SelectSeq(Appended, IsBorder)) = 3
      ]_vars

\* The head of a table has ended: its two cells hold a text and an inline
\* code, and the text of a link, and the output has no line yet.
C16_Witness ==
    /\ pc = "walk"
    /\ Prev = End("TableHead")
    /\ r.lines = <<>>
    /\ Len(r.table_header_rows) = 1
    /\ Len(r.table_header_rows[1]) = 2
    /\ KindsOf(r.table_header_rows[1][1]) = {"text", "code"}
    /\ Len(r.table_header_rows[1][2]) = 1
    /\ \E i \in 1..Len(events) : events[i] = End("Link")

\* The cells of a row line: the spans between one vertical bar and the
\* next, cur being the spans since the last bar.
RECURSIVE CellsBetweenBars(_, _)
CellsBetweenBars(line, cur) ==
    IF line = <<>> THEN <<>>
    ELSE IF Head(line) = BarSpan THEN <<cur>> \o CellsBetweenBars(Tail(line), <<>>)
    ELSE CellsBetweenBars(Tail(line), Append(cur, Head(line)))

\* The cells of a row line, without the empty run that ends at its first
\* bar.
LineCells(line) == Tail(CellsBetweenBars(line, <<>>))

\* line is the line of the row: it begins and ends with a bar and has a
\* cell for each of the widths; a cell is as wide as its column, and a cell
\* the row does not have holds only padding.
IsRowLine(line, row, widths) ==
    /\ line # <<>> /\ Head(line) = BarSpan /\ Last(line) = BarSpan
    /\ Len(LineCells(line)) = Len(widths)
    /\ \A i \in 1..Len(widths) :
          /\ TextLength(LineCells(line)[i]) = widths[i]
          /\ i > Len(row) => line_is_blank(LineCells(line)[i])

\* C17: the End of a table with h header rows, b body rows and at least one
\* cell appends the top border, the h header lines, the middle border, the
\* b body lines, the bottom border and the blank line, in this order; each
\* row line has a cell for every column, those the row lacks holding only
\* padding.  The End of a table without rows or without columns appends
\* nothing.
C17_TableLines ==
    [][ TableEnds =>
          LET head == r.table_header_rows
              body == r.table_body_rows
              h == Len(head)
              b == Len(body)
          IN  IF \A j \in 1..(h + b) : (head \o body)[j] = <<>>
              THEN Appended = <<>>
              ELSE LET widths == BorderWidths(BorderOf(Appended[1])) IN
                   /\ Len(Appended) = h + b + 4
                   /\ IsBorder(Appended[1]) /\ Head(BorderOf(Appended[1])) = "TopLeft"
                   /\ \A i \in 1..h : IsRowLine(Appended[1 + i], head[i], widths)
                   /\ IsBorder(Appended[h + 2]) /\ Head(BorderOf(Appended[h + 2])) = "MidLeft"
                   /\ \A i \in 1..b : IsRowLine(Appended[h + 2 + i], body[i], widths)
                   /\ IsBorder(Appended[h + b + 3])
                   /\ Head(BorderOf(Appended[h + b + 3])) = "BotLeft"
                   /\ Appended[h + b + 4] = BlankLine
      ]_vars

\* A table of two columns has ended whose body row has one cell: the row's
\* line has two cells, the second one blank.
C17_Witness ==
    /\ pc = "walk"
    /\ Prev = End("Table")
    /\ Len(r.lines) = 6
    /\ Len(LineCells(r.lines[2])) = 2
    /\ Len(LineCells(r.lines[4])) = 2
    /\ ~line_is_blank(LineCells(r.lines[4])[1])
    /\ line_is_blank(LineCells(r.lines[4])[2])
    /\ r.lines[6] = BlankLine

\* C18: the End of a link appends one span holding the destination of the
\* link's Start to the buffer that received the link's text: the current
\* cell's buffer inside a table cell, the pending spans elsewhere; the other
\* buffer stays as it is, the captured destination is cleared and the style
\* in effect is again the one before the link's Start.
C18_LinkUrl ==
    [][ (pc = "walk" /\ events' = Append(events, End("Link"))) =>
          LET url == Str("url", events[StartOf("Link")].s) IN
          /\ IF r.in_table
             THEN /\ Len(r'.current_cell_spans) = Len(r.current_cell_spans) + 1
                  /\ Front(r'.current_cell_spans) = r.current_cell_spans
                  /\ Last(r'.current_cell_spans).content = url
                  /\ r'.current_spans = r.current_spans
             ELSE /\ Len(r'.current_spans) = Len(r.current_spans) + 1
                  /\ Front(r'.current_spans) = r.current_spans
                  /\ Last(r'.current_spans).content = url
                  /\ r'.current_cell_spans = r.current_cell_spans
          /\ r'.link_url = <<>>
          /\ current_style(r') = StyleBefore("Link")
      ]_vars

\* The tags whose Start pushes a style and whose End pops one.
StyledTags == StyleTags \cup {"Heading", "Link"}

\* C19: the style stack always holds an element and its first element is
\* the default style; the End of a Strong, an Emphasis, a Strikethrough, a
\* heading or a link removes the last element of the stack, the one its
\* Start pushed: the stack before the End is the stack right after that
\* Start, and the stack after the End is the stack right before it.
C19_StyleStack ==
    [][ /\ r.style_stack # <<>> /\ r.style_stack[1] = DefaultStyle
        /\ r'.style_stack # <<>> /\ r'.style_stack[1] = DefaultStyle
        /\ \A tag \in StyledTags :
              (pc = "walk" /\ events' = Append(events, End(tag))) =>
                  /\ r.style_stack = StateAfter(StartOf(tag)).style_stack
                  /\ r'.style_stack = Front(r.style_stack)
                  /\ r'.style_stack = StateAfter(StartOf(tag) - 1).style_stack
      ]_vars

\* A link inside a Strong inside a heading has ended: the stack holds the
\* default style, the heading's and the Strong's.
C19_Witness ==
    /\ pc = "walk"
    /\ Prev = End("Link")
    /\ Len(open) = 2 /\ open[1].tag = "Heading" /\ open[2].tag = "Strong"
    /\ Len(r.style_stack) = 3
    /\ r.style_stack[1] = DefaultStyle
    /\ r.style_stack[3].mods = {"BOLD"}

\* The number of lines of the code of a buffer: none when it holds only
\* line endings, and otherwise one more than the line endings before its
\* last character that is no line ending.
CodeLineCount(buf) ==
    LET kept == {i \in 1..Len(buf) : buf[i] # NL} IN
    IF kept = {} THEN 0
    ELSE LET last == CHOOSE i \in kept : \A j \in kept : j <= i IN
         1 + Cardinality({i \in 1..last : buf[i] = NL})

\* A body line of a code block: a line with spans that is no label.
IsBodyLine(line) == line # <<>> /\ ~IsLabel(line)

\* line starts with the indent of four spaces: as a span of its own, or at
\* the beginning of the one span of an unhighlighted line.
StartsIndented(line) ==
    \/ line[1].content.k = "codeline"
    \/ line[1].content = Spaces(4)

\* C20: the End of a code block appends as many body lines as its code has
\* lines once the line endings at the end of the buffer are removed, for a
\* language that resolves and for one that does not; each body line starts
\* with the indent of four spaces.
C20_BodyLines ==
    [][ (pc = "walk" /\ events' = Append(events, End("CodeBlock"))) =>
          LET body == SelectSeq(Appended, IsBodyLine) IN
          /\ Len(body) = CodeLineCount(r.code_block_buf)
          /\ \A i \in 1..Len(body) : StartsIndented(body[i])
      ]_vars

\* A code block in rust has ended whose buffer held a line, an empty line,
\* a line and two line endings: it appended the label, three body lines and
\* the blank line.
C20_Witness ==
    /\ pc = "walk"
    /\ Prev = End("CodeBlock")
    /\ Len(events) = 6
    /\ events[1].s = LangRust
    /\ Len(events[2].s) = 2 /\ events[3].s = <<NL>>
    /\ Len(events[4].s) = 2 /\ events[5].s = <<NL>>
    /\ Len(r.lines) = 5
    /\ IsLabel(r.lines[1])
    /\ r.lines[3] = <<Span(Spaces(4), Bg(DefaultStyle, CODE_BG))>>
    /\ r.lines[5] = BlankLine

\* The step that handed a SoftBreak or a HardBreak to process_event.
BreakStep ==
    pc = "walk" /\ events' # events /\ Last(events').type \in {"SoftBreak", "HardBreak"}

\* C21: a SoftBreak or a HardBreak appends the pending spans as one line
\* when there are any and appends nothing when there are none; it appends
\* no blank line of separation, leaves no span pending and leaves every
\* other field of the renderer as it is.
C21_Break ==
    [][ BreakStep =>
          /\ r'.lines = IF r.current_spans # <<>>
                        THEN Append(r.lines, r.current_spans)
                        ELSE r.lines
          /\ r'.current_spans = <<>>
          /\ \A f \in DOMAIN r \ {"lines", "current_spans"} : r'[f] = r[f]
      ]_vars

\* A hard break followed a text in a block quote: the line of the quote
\* marker and the text was appended, and nothing is pending.
C21_Witness ==
    /\ pc = "walk"
    /\ Prev.type = "HardBreak"
    /\ r.blockquote_depth = 1
    /\ r.current_spans = <<>>
    /\ Len(r.lines) = 1
    /\ Len(r.lines[1]) = 2
    /\ r.lines[1][1] = QuoteSpan
    /\ r.lines[1][2].content.k = "text"

\* The step that handed an End without a Start, of the tag, to
\* process_event.
ExtraEndStep(tag) == pc = "walk" /\ events' = Append(events, Unmatched(tag))

NoTableState(self) ==
    /\ self.current_cell_spans = <<>>
    /\ self.table_row_cells = <<>>
    /\ self.table_header_rows = <<>>
    /\ self.table_body_rows = <<>>
    /\ ~self.in_table
    /\ ~self.in_table_head

\* The block state a Renderer is made with.
BalancedBlocks(self) ==
    /\ self.style_stack = <<DefaultStyle>>
    /\ self.list_stack = <<>>
    /\ self.blockquote_depth = 0
    /\ ~self.in_code_block
    /\ self.code_block_buf = <<>>
    /\ self.link_url = <<>>

\* C23: block and table state is balanced over a well-formed stream.
\* Whenever no table is open the cell buffer, the row buffer, the header
\* rows and the body rows are empty and the in-table and in-table-head flags
\* are false; when the stream is exhausted the style stack is [default], the
\* list stack is empty, the block quote depth is 0, the code block flag is
\* false with an empty code buffer, and no link destination is held.
C23_Balanced ==
    /\ ~InOpen("Table") => NoTableState(r)
    /\ pc = "done" => BalancedBlocks(r)

\* A stream with a heading that has a text and with a table is exhausted,
\* and their lines were emitted.
C23_Witness ==
    /\ pc = "done"
    /\ \E i \in 1..Len(events) : events[i] = End("Table")
    /\ \E i \in 1..Len(events) : events[i] = End("Heading")
    /\ \E i \in 1..Len(events) : events[i].type = "Text"
    /\ Len(output) >= 4

\* The lines of the output that hold the character.
LinesOf(ch) == {i \in 1..Len(output) : ch \in LineChars(output[i])}

\* C24: the output follows the order of the events.  The characters of the
\* stream are numbered in the order of their events: when the text of an
\* earlier Text or Code event and the text of a later one (the body of a
\* code block and the texts of a table included) are both in the returned
\* lines, the earlier text is on the same line as the later one or on a
\* line before it; so the spans that are pending when a code block or a
\* table ends are on a line before that block's lines.
C24_EventOrder ==
    pc = "done" =>
        \A a, b \in EventChars :
            a < b => \A i \in LinesOf(a), j \in LinesOf(b) : i <= j

\* str::chars().count() of a content: its length in characters, which is
\* the number of cells of the character grid it takes when no character is
\* double-width.
CharCount(c) ==
    CASE c.k = "text"     -> Len(c.s)
      [] c.k = "code"     -> Len(c.s) + 2
      [] c.k = "header"   -> c.v + Len(c.s) + c.n
      [] c.k = "bar"      -> 1
      [] c.k = "url"      -> Len(c.s) + 3
      [] c.k = "border"   -> Len(c.s)
      [] c.k = "imgopen"  -> 6
      [] c.k = "imgclose" -> 1
      [] OTHER            -> 0

RECURSIVE LineLength(_)
\* The total text length of a line, in characters.
LineLength(line) ==
    IF line = <<>> THEN 0 ELSE CharCount(Head(line).content) + LineLength(Tail(line))

RECURSIVE Sum(_)
Sum(s) == IF s = <<>> THEN 0 ELSE Head(s) + Sum(Tail(s))

\* C25: all the lines appended for one table have the same total text
\* length: each border and each header or body row line is as long as the
\* sum of the column widths plus the column count plus 1, whatever the cells
\* hold and for rows with fewer cells than columns.
C25_TableLineLengths ==
    [][ (TableEnds /\ Appended # <<>>) =>
          LET widths == BorderWidths(BorderOf(Appended[1])) IN
          \A i \in 1..(Len(Appended) - 1) :
              LineLength(Appended[i]) = Sum(widths) + Len(widths) + 1
      ]_vars

\* C26: a separator blank line is appended only after a line that is not
\* blank: while the output is built its first line is never blank, and the
\* returned output starts with a line that is not blank unless it is the
\* one blank line of the fallback; also when the stream begins with a block
\* that produces no line, such as an empty heading.
C26_NoLeadingBlank ==
    /\ pc = "walk" /\ r.lines # <<>> => ~line_is_blank(r.lines[1])
    /\ pc = "done" => ~line_is_blank(output[1]) \/ output = <<BlankLine>>

====
